---- MODULE Spec2Model ----
(***************************************************************************)
(* Model of scripts/generate_icon.py: the squircle path construction, the  *)
(* icon compositor create_icon, the exporter save_png and the pipeline of  *)
(* main().                                                                 *)
(*                                                                         *)
(* Real numbers.  The script computes with Python floats whose values are  *)
(* decimal literals and products of them.  They are modelled as signed     *)
(* decimal fixed-point numbers with 16 fractional digits: a magnitude is a *)
(* little-endian sequence of six limbs in base 10^4 (limbs 1..4 hold the   *)
(* fraction, limbs 5..6 the integer part).  Sums, differences and the      *)
(* products the script forms from its literals are exact in this format; a *)
(* quotient is truncated to 16 fractional digits.                          *)
(***************************************************************************)
EXTENDS Integers, Sequences, FiniteSets

---------------------------------------------------------------------------
(* Decimal fixed-point arithmetic (Python float operators + - * / < min)   *)

ZeroMag == <<0, 0, 0, 0, 0, 0>>

RECURSIVE AddLimbs(_, _, _, _)
AddLimbs(a, b, i, carry) ==
    IF i > Len(a) THEN <<>>
    ELSE LET s == a[i] + b[i] + carry
         IN  <<s % 10000>> \o AddLimbs(a, b, i + 1, s \div 10000)

RECURSIVE SubLimbs(_, _, _, _)
SubLimbs(a, b, i, borrow) ==
    IF i > Len(a) THEN <<>>
    ELSE LET s == a[i] - b[i] - borrow
         IN  IF s < 0 THEN <<s + 10000>> \o SubLimbs(a, b, i + 1, 1)
                      ELSE <<s>> \o SubLimbs(a, b, i + 1, 0)

RECURSIVE LessLimbs(_, _, _)
LessLimbs(a, b, i) ==
    IF i = 0 THEN FALSE
    ELSE IF a[i] # b[i] THEN a[i] < b[i]
    ELSE LessLimbs(a, b, i - 1)

MagLess(a, b) == LessLimbs(a, b, Len(a))

RECURSIVE ConvSum(_, _, _, _)
ConvSum(a, b, k, i) ==
    IF i > Len(a) THEN 0
    ELSE (IF k - i >= 1 /\ k - i <= Len(b) THEN a[i] * b[k - i] ELSE 0)
         + ConvSum(a, b, k, i + 1)

RECURSIVE MulLimbs(_, _, _, _)
MulLimbs(a, b, k, carry) ==
    IF k > Len(a) + Len(b) + 1 THEN <<>>
    ELSE LET s == ConvSum(a, b, k, 1) + carry
         IN  <<s % 10000>> \o MulLimbs(a, b, k + 1, s \div 10000)

\* the full 12-limb product of two magnitudes (32 fractional digits)
MagMulFull(a, b) == MulLimbs(a, b, 2, 0)

\* the product cut back to 16 fractional digits
MagMul(a, b) == SubSeq(MagMulFull(a, b), 5, 10)

\* a magnitude with 32 fractional digits, to compare with a full product
Widen(a) == <<0, 0, 0, 0>> \o a \o <<0, 0>>

SetLimb(q, k, d) == [q EXCEPT ![k] = d]

\* the largest d in lo..hi with SetLimb(q,k,d) * b <= a
RECURSIVE BestLimb(_, _, _, _, _, _)
BestLimb(a, b, q, k, lo, hi) ==
    IF lo = hi THEN lo
    ELSE LET mid == (lo + hi + 1) \div 2
         IN  IF MagLess(Widen(a), MagMulFull(SetLimb(q, k, mid), b))
             THEN BestLimb(a, b, q, k, lo, mid - 1)
             ELSE BestLimb(a, b, q, k, mid, hi)

RECURSIVE DivLimbs(_, _, _, _)
DivLimbs(a, b, q, k) ==
    IF k = 0 THEN q
    ELSE DivLimbs(a, b, SetLimb(q, k, BestLimb(a, b, q, k, 0, 9999)), k - 1)

\* the quotient a / b truncated to 16 fractional digits (b # 0)
MagDiv(a, b) == DivLimbs(a, b, ZeroMag, Len(a))

Num(neg, mag) == [neg |-> neg /\ mag # ZeroMag, mag |-> mag]

\* the decimal literal i.ffffgggg (i < 10^4, f and g four digits each)
Dec(i, f, g) == Num(FALSE, <<0, 0, g, f, i, 0>>)

Abs(n) == IF n < 0 THEN -n ELSE n

\* the number m / 1000 for an integer m
Milli(m) ==
    Num(m < 0, <<0, 0, 0, (Abs(m) % 1000) * 10,
                 (Abs(m) \div 1000) % 10000, Abs(m) \div 10000000>>)

Neg(a) == Num(~a.neg, a.mag)

Add(a, b) ==
    IF a.neg = b.neg THEN Num(a.neg, AddLimbs(a.mag, b.mag, 1, 0))
    ELSE IF MagLess(a.mag, b.mag) THEN Num(b.neg, SubLimbs(b.mag, a.mag, 1, 0))
    ELSE Num(a.neg, SubLimbs(a.mag, b.mag, 1, 0))

Sub(a, b) == Add(a, Neg(b))

Mul(a, b) == Num(a.neg # b.neg, MagMul(a.mag, b.mag))

Div(a, b) == Num(a.neg # b.neg, MagDiv(a.mag, b.mag))

Less(a, b) ==
    IF a.neg # b.neg THEN a.neg
    ELSE IF a.neg THEN MagLess(b.mag, a.mag)
    ELSE MagLess(a.mag, b.mag)

Leq(a, b) == ~Less(b, a)

\* Python's min(a, b): the first argument unless the second is smaller
Min(a, b) == IF Less(b, a) THEN b ELSE a

Zero == Dec(0, 0, 0)
Two == Dec(2, 0, 0)

---------------------------------------------------------------------------
(* create_squircle_path                                                    *)

LIMIT_FACTOR == Dec(1, 5286, 6483)
TOP_RIGHT_P1 == Dec(1, 5286, 6483)
TOP_RIGHT_P2 == Dec(1, 884, 9323)
TOP_RIGHT_P3 == Dec(0, 8684, 689)
TOP_RIGHT_P4 == Dec(0, 6699, 3427)
TOP_RIGHT_P5 == Dec(0, 6314, 9399)
TOP_RIGHT_P6 == Dec(0, 3728, 2392)
TOP_RIGHT_P7 == Dec(0, 1690, 6013)
TOP_RIGHT_CP1 == Dec(0, 654, 9600)
TOP_RIGHT_CP2 == Dec(0, 749, 1100)
TOP_RIGHT_CP3 == Dec(0, 1690, 5899)
TOP_RIGHT_CP4 == Dec(0, 3728, 2401)

\* the factor 0.22 of line 44
RadiusRatio_Wide == Dec(0, 3500, 0)
RadiusRatio == Dec(0, 2200, 0)

NSPoint(px, py) == <<px, py>>

\* NSBezierPath: a path is the sequence of the elements appended to it
moveToPoint(path, p) == Append(path, [op |-> "move", pts |-> <<p>>])
lineToPoint(path, p) == Append(path, [op |-> "line", pts |-> <<p>>])
curveToPoint(path, p, c1, c2) == Append(path, [op |-> "curve", pts |-> <<p, c1, c2>>])
closePath(path) == Append(path, [op |-> "close", pts |-> <<>>])

corner_radius(width, height) == Mul(Min(width, height), RadiusRatio)
max_radius(width, height) == Div(Min(width, height), Two)
limited_radius(width, height) ==
    Min(corner_radius(width, height), Div(max_radius(width, height), LIMIT_FACTOR))

top_right_corner(path, r, left, right, top, bottom) ==
    LET a == curveToPoint(path,
                 NSPoint(Sub(right, Mul(r, TOP_RIGHT_P4)), Sub(top, Mul(r, TOP_RIGHT_CP1))),
                 NSPoint(Sub(right, Mul(r, TOP_RIGHT_P2)), top),
                 NSPoint(Sub(right, Mul(r, TOP_RIGHT_P3)), top))
        b == curveToPoint(a,
                 NSPoint(Sub(right, Mul(r, TOP_RIGHT_CP2)), Sub(top, Mul(r, TOP_RIGHT_P5))),
                 NSPoint(Sub(right, Mul(r, TOP_RIGHT_P6)), Sub(top, Mul(r, TOP_RIGHT_CP3))),
                 NSPoint(Sub(right, Mul(r, TOP_RIGHT_P7)), Sub(top, Mul(r, TOP_RIGHT_CP4))))
    IN  curveToPoint(b,
                 NSPoint(right, Sub(top, Mul(r, TOP_RIGHT_P1))),
                 NSPoint(right, Sub(top, Mul(r, TOP_RIGHT_P3))),
                 NSPoint(right, Sub(top, Mul(r, TOP_RIGHT_P2))))

\* a sign slip in the first end point: right + r * CP1
bottom_right_corner_SignSlip(path, r, left, right, top, bottom) ==
    LET a == curveToPoint(path,
                 NSPoint(Add(right, Mul(r, TOP_RIGHT_CP1)), Add(bottom, Mul(r, TOP_RIGHT_P4))),
                 NSPoint(right, Add(bottom, Mul(r, TOP_RIGHT_P2))),
                 NSPoint(right, Add(bottom, Mul(r, TOP_RIGHT_P3))))
        b == curveToPoint(a,
                 NSPoint(Sub(right, Mul(r, TOP_RIGHT_P5)), Add(bottom, Mul(r, TOP_RIGHT_CP2))),
                 NSPoint(Sub(right, Mul(r, TOP_RIGHT_CP3)), Add(bottom, Mul(r, TOP_RIGHT_P6))),
                 NSPoint(Sub(right, Mul(r, TOP_RIGHT_CP4)), Add(bottom, Mul(r, TOP_RIGHT_P7))))
    IN  curveToPoint(b,
                 NSPoint(Sub(right, Mul(r, TOP_RIGHT_P1)), bottom),
                 NSPoint(Sub(right, Mul(r, TOP_RIGHT_P3)), bottom),
                 NSPoint(Sub(right, Mul(r, TOP_RIGHT_P2)), bottom))

bottom_right_corner(path, r, left, right, top, bottom) ==
    LET a == curveToPoint(path,
                 NSPoint(Sub(right, Mul(r, TOP_RIGHT_CP1)), Add(bottom, Mul(r, TOP_RIGHT_P4))),
                 NSPoint(right, Add(bottom, Mul(r, TOP_RIGHT_P2))),
                 NSPoint(right, Add(bottom, Mul(r, TOP_RIGHT_P3))))
        b == curveToPoint(a,
                 NSPoint(Sub(right, Mul(r, TOP_RIGHT_P5)), Add(bottom, Mul(r, TOP_RIGHT_CP2))),
                 NSPoint(Sub(right, Mul(r, TOP_RIGHT_CP3)), Add(bottom, Mul(r, TOP_RIGHT_P6))),
                 NSPoint(Sub(right, Mul(r, TOP_RIGHT_CP4)), Add(bottom, Mul(r, TOP_RIGHT_P7))))
    IN  curveToPoint(b,
                 NSPoint(Sub(right, Mul(r, TOP_RIGHT_P1)), bottom),
                 NSPoint(Sub(right, Mul(r, TOP_RIGHT_P3)), bottom),
                 NSPoint(Sub(right, Mul(r, TOP_RIGHT_P2)), bottom))

\* the coefficients of the middle end point exchanged: (P5, CP2) for (CP2, P5)
bottom_left_corner_Swapped(path, r, left, right, top, bottom) ==
    LET a == curveToPoint(path,
                 NSPoint(Add(left, Mul(r, TOP_RIGHT_P4)), Add(bottom, Mul(r, TOP_RIGHT_CP1))),
                 NSPoint(Add(left, Mul(r, TOP_RIGHT_P2)), bottom),
                 NSPoint(Add(left, Mul(r, TOP_RIGHT_P3)), bottom))
        b == curveToPoint(a,
                 NSPoint(Add(left, Mul(r, TOP_RIGHT_P5)), Add(bottom, Mul(r, TOP_RIGHT_CP2))),
                 NSPoint(Add(left, Mul(r, TOP_RIGHT_P6)), Add(bottom, Mul(r, TOP_RIGHT_CP3))),
                 NSPoint(Add(left, Mul(r, TOP_RIGHT_P7)), Add(bottom, Mul(r, TOP_RIGHT_CP4))))
    IN  curveToPoint(b,
                 NSPoint(left, Add(bottom, Mul(r, TOP_RIGHT_P1))),
                 NSPoint(left, Add(bottom, Mul(r, TOP_RIGHT_P3))),
                 NSPoint(left, Add(bottom, Mul(r, TOP_RIGHT_P2))))

bottom_left_corner(path, r, left, right, top, bottom) ==
    LET a == curveToPoint(path,
                 NSPoint(Add(left, Mul(r, TOP_RIGHT_P4)), Add(bottom, Mul(r, TOP_RIGHT_CP1))),
                 NSPoint(Add(left, Mul(r, TOP_RIGHT_P2)), bottom),
                 NSPoint(Add(left, Mul(r, TOP_RIGHT_P3)), bottom))
        b == curveToPoint(a,
                 NSPoint(Add(left, Mul(r, TOP_RIGHT_CP2)), Add(bottom, Mul(r, TOP_RIGHT_P5))),
                 NSPoint(Add(left, Mul(r, TOP_RIGHT_P6)), Add(bottom, Mul(r, TOP_RIGHT_CP3))),
                 NSPoint(Add(left, Mul(r, TOP_RIGHT_P7)), Add(bottom, Mul(r, TOP_RIGHT_CP4))))
    IN  curveToPoint(b,
                 NSPoint(left, Add(bottom, Mul(r, TOP_RIGHT_P1))),
                 NSPoint(left, Add(bottom, Mul(r, TOP_RIGHT_P3))),
                 NSPoint(left, Add(bottom, Mul(r, TOP_RIGHT_P2))))

top_left_corner(path, r, left, right, top, bottom) ==
    LET a == curveToPoint(path,
                 NSPoint(Add(left, Mul(r, TOP_RIGHT_CP1)), Sub(top, Mul(r, TOP_RIGHT_P4))),
                 NSPoint(left, Sub(top, Mul(r, TOP_RIGHT_P2))),
                 NSPoint(left, Sub(top, Mul(r, TOP_RIGHT_P3))))
        b == curveToPoint(a,
                 NSPoint(Add(left, Mul(r, TOP_RIGHT_P5)), Sub(top, Mul(r, TOP_RIGHT_CP2))),
                 NSPoint(Add(left, Mul(r, TOP_RIGHT_CP3)), Sub(top, Mul(r, TOP_RIGHT_P6))),
                 NSPoint(Add(left, Mul(r, TOP_RIGHT_CP4)), Sub(top, Mul(r, TOP_RIGHT_P7))))
    IN  curveToPoint(b,
                 NSPoint(Add(left, Mul(r, TOP_RIGHT_P1)), top),
                 NSPoint(Add(left, Mul(r, TOP_RIGHT_P3)), top),
                 NSPoint(Add(left, Mul(r, TOP_RIGHT_P2)), top))

\* lines 49-128: the elements appended to the path
path_elements(r, left, right, top, bottom) ==
    LET s1 == moveToPoint(<<>>, NSPoint(Add(left, Mul(r, TOP_RIGHT_P1)), top))
        s2 == lineToPoint(s1, NSPoint(Sub(right, Mul(r, TOP_RIGHT_P1)), top))
        s3 == top_right_corner(s2, r, left, right, top, bottom)
        s4 == lineToPoint(s3, NSPoint(right, Add(bottom, Mul(r, TOP_RIGHT_P1))))
        s5 == bottom_right_corner(s4, r, left, right, top, bottom)
        s6 == lineToPoint(s5, NSPoint(Add(left, Mul(r, TOP_RIGHT_P1)), bottom))
        s7 == bottom_left_corner(s6, r, left, right, top, bottom)
        s8 == lineToPoint(s7, NSPoint(left, Sub(top, Mul(r, TOP_RIGHT_P1))))
        s9 == top_left_corner(s8, r, left, right, top, bottom)
    IN  closePath(s9)

\* lines 47-128 for the radius of line 46; the record keeps the radius beside
\* the path's elements
squircle_of_radius(r, x, y, width, height) ==
    [elements |-> path_elements(r, x, Add(x, width), Add(y, height), y), r |-> r]

\* the NSBezierPath returned for the arguments (x, y, width, height)
create_squircle_path(x, y, width, height) ==
    squircle_of_radius(limited_radius(width, height), x, y, width, height)

NoPath == [elements |-> <<>>, r |-> Zero]

---------------------------------------------------------------------------
(* State.  A value that may be None is a sequence of length at most one.   *)

VARIABLES
    pc,              \* the statement main() is at
    source_exists,   \* whether images/appiconbase.png exists when main() runs
    stdout,          \* the lines printed so far
    ret,             \* main()'s return value ("1" or "None"), "running" before
    error,           \* the exception that ended the run, or "none"
    dir_exists,      \* whether mkdir created the output directory
    files,           \* the PNG files written to the output directory
    manifest,        \* the contents of Contents.json, <<>> until written
    manifest_writes, \* how often Contents.json was written
    calls,           \* the calls main() has made, in order
    source_image,    \* the NSImage load_source_image returned
    icon,            \* the NSImage create_icon returned
    current_ctx,     \* NSGraphicsContext.currentContext()
    gs_depth,        \* saveGraphicsState calls not yet restored
    gs_stack,        \* the clips saved by saveGraphicsState
    clip,            \* the paths the current context is clipped to
    paints,          \* the painting operations done on the icon canvas
    squircle_path,   \* create_icon's local of that name
    highlight_path,  \* create_icon's local of that name
    shadow_path,     \* create_icon's local of that name
    idx,             \* the index in sizes of the export loop
    bitmap,          \* save_png's local of that name
    png_data,        \* save_png's local of that name
    write_failed,    \* the sizes whose writeToFile_atomically_ returned False
    arg_x,           \* the arguments of a direct call of create_squircle_path,
    arg_y,           \*   in thousandths
    arg_width,
    arg_height,
    ppc,             \* the position of that call: "call" or "returned"
    squircle         \* the path it returned

mainVars == <<pc, source_exists, stdout, ret, error, dir_exists, files, manifest,
              manifest_writes, calls, source_image, icon, current_ctx, gs_depth,
              gs_stack, clip, paints, squircle_path, highlight_path, shadow_path,
              idx, bitmap, png_data, write_failed>>

pathVars == <<arg_x, arg_y, arg_width, arg_height, ppc, squircle>>

vars == <<mainVars, pathVars>>

---------------------------------------------------------------------------
(* main(): the inputs and the constants of the pipeline                    *)

sizes == <<16, 32, 64, 128, 256, 512, 1024>>

CanvasSize == 1024

\* f"appicon_{size}.png" and f"{size}x{size}", kept as their parts
PngName(size) == <<"appicon_", size, ".png">>
SizeString(size) == <<size, "x", size>>

\* the pixel sizes a decodable source image may have
SourceSizes == {<<1024, 1024>>, <<800, 600>>}

\* one element of the "images" list of lines 259-262
image_entry_SizeOnce(size) ==
    [filename |-> PngName(size), idiom |-> "mac", size |-> <<size>>, scale |-> "1x"]

image_entry(size) ==
    [filename |-> PngName(size), idiom |-> "mac", size |-> SizeString(size),
     scale |-> "1x"]

contents ==
    [images |-> [i \in 1..Len(sizes) |-> image_entry(sizes[i])],
     info   |-> [author |-> "xcode", version |-> 1]]

outVars == <<dir_exists, files, manifest, manifest_writes>>
gfxVars == <<current_ctx, gs_depth, gs_stack, clip, paints>>
iconVars == <<squircle_path, highlight_path, shadow_path>>
pngVars == <<idx, bitmap, png_data, write_failed>>

Call(fn, name, size) == [fn |-> fn, name |-> name, size |-> size]

---------------------------------------------------------------------------
(* main(), lines 231-245                                                   *)

\* the directory is made before the existence check
CheckSource_MkdirFirst ==
    /\ pc = "main"
    /\ dir_exists' = TRUE
    /\ IF ~source_exists
       THEN /\ stdout' = Append(stdout, "Error: Source image not found")
            /\ ret' = "1"
            /\ pc' = "done"
       ELSE /\ pc' = "mkdir"
            /\ UNCHANGED <<stdout, ret>>
    /\ UNCHANGED <<source_exists, error, files, manifest, manifest_writes, calls,
                   source_image, icon, gfxVars, iconVars, pngVars, pathVars>>

CheckSource ==
    /\ pc = "main"
    /\ IF ~source_exists
       THEN /\ stdout' = Append(stdout, "Error: Source image not found")
            /\ ret' = "1"
            /\ pc' = "done"
       ELSE /\ pc' = "mkdir"
            /\ UNCHANGED <<stdout, ret>>
    /\ UNCHANGED <<source_exists, error, outVars, calls, source_image, icon,
                   gfxVars, iconVars, pngVars, pathVars>>

\* output_dir.mkdir(parents=True, exist_ok=True): creates the directory or
\* raises OSError
Mkdir ==
    /\ pc = "mkdir"
    /\ \/ /\ dir_exists' = TRUE
          /\ pc' = "load"
          /\ UNCHANGED error
       \/ /\ error' = "OSError"
          /\ pc' = "raised"
          /\ UNCHANGED dir_exists
    /\ UNCHANGED <<source_exists, stdout, ret, files, manifest, manifest_writes,
                   calls, source_image, icon, gfxVars, iconVars, pngVars, pathVars>>

\* load_source_image: initWithContentsOfFile_ returns the image, or None for a
\* file it cannot decode
LoadSourceImage ==
    /\ pc = "load"
    /\ stdout' = Append(stdout, "Loading source image")
    /\ calls' = Append(calls, Call("load_source_image", <<>>, 0))
    /\ \/ /\ \E sz \in SourceSizes : source_image' = <<[size |-> sz]>>
          /\ pc' = "create_icon"
          /\ UNCHANGED error
       \/ /\ error' = "FileNotFoundError"
          /\ pc' = "raised"
          /\ UNCHANGED source_image
    /\ UNCHANGED <<source_exists, ret, outVars, icon, gfxVars, iconVars, pngVars,
                   pathVars>>

---------------------------------------------------------------------------
(* create_icon(source_image, 1024), lines 139-201                          *)

size_of_icon == Milli(CanvasSize * 1000)
icon_size == Mul(size_of_icon, Dec(0, 8125, 0))
margin == Div(Sub(size_of_icon, icon_size), Two)
bevel_offset == Mul(size_of_icon, Dec(0, 40, 0))
stroke_width == Mul(size_of_icon, Dec(0, 80, 0))
crop_ratio == Dec(0, 1500, 0)

\* lines 143-156: the bitmap, its context made current, the mask path
CI_Begin ==
    /\ pc = "create_icon"
    /\ stdout' = Append(stdout, "Creating icon with squircle mask...")
    /\ calls' = Append(calls, Call("create_icon", <<>>, CanvasSize))
    /\ current_ctx' = "icon_ctx"
    /\ squircle_path' = create_squircle_path(margin, margin, icon_size, icon_size)
    /\ pc' = "ci_save1"
    /\ UNCHANGED <<source_exists, ret, error, outVars, source_image, icon, gs_depth,
                   gs_stack, clip, paints, highlight_path, shadow_path, pngVars,
                   pathVars>>

saveGraphicsState ==
    /\ gs_stack' = Append(gs_stack, clip)
    /\ gs_depth' = gs_depth + 1
    /\ UNCHANGED clip

restoreGraphicsState ==
    /\ gs_depth' = gs_depth - 1
    /\ IF gs_stack = <<>>
       THEN UNCHANGED <<gs_stack, clip>>
       ELSE /\ clip' = gs_stack[Len(gs_stack)]
            /\ gs_stack' = SubSeq(gs_stack, 1, Len(gs_stack) - 1)

\* NSBezierPath.addClip: the clip becomes its intersection with the path
addClip(path) ==
    /\ clip' = clip \cup {path}
    /\ UNCHANGED <<gs_stack, gs_depth>>

ciFrame == <<source_exists, stdout, ret, error, outVars, calls, source_image, icon,
             pngVars, pathVars>>

\* line 158
CI_Save1 ==
    /\ pc = "ci_save1"
    /\ saveGraphicsState
    /\ pc' = "ci_clip1"
    /\ UNCHANGED <<ciFrame, current_ctx, paints, iconVars>>

\* line 159
CI_AddClip1 ==
    /\ pc = "ci_clip1"
    /\ addClip(squircle_path)
    /\ pc' = "ci_draw"
    /\ UNCHANGED <<ciFrame, current_ctx, paints, iconVars>>

\* lines 162-170
CI_DrawSource ==
    /\ pc = "ci_draw"
    /\ LET w == Milli(source_image[1].size[1] * 1000)
           h == Milli(source_image[1].size[2] * 1000)
           crop_px == Mul(w, crop_ratio)
       IN  paints' = Append(paints,
               [op   |-> "drawInRect",
                ctx  |-> current_ctx,
                clip |-> clip,
                depth |-> gs_depth,
                rect |-> <<margin, margin, icon_size, icon_size>>,
                from |-> <<crop_px, crop_px, Sub(w, Mul(crop_px, Two)),
                           Sub(h, Mul(crop_px, Two))>>])
    /\ pc' = "ci_restore1"
    /\ UNCHANGED <<ciFrame, current_ctx, gs_depth, gs_stack, clip, iconVars>>

\* line 172
CI_Restore1 ==
    /\ pc = "ci_restore1"
    /\ restoreGraphicsState
    /\ pc' = "ci_save2"
    /\ UNCHANGED <<ciFrame, current_ctx, paints, iconVars>>

\* line 178
CI_Save2 ==
    /\ pc = "ci_save2"
    /\ saveGraphicsState
    /\ pc' = "ci_clip2"
    /\ UNCHANGED <<ciFrame, current_ctx, paints, iconVars>>

\* the clip of line 179 left out
CI_AddClip2_Skipped ==
    /\ pc = "ci_clip2"
    /\ pc' = "ci_highlight"
    /\ UNCHANGED <<ciFrame, gfxVars, iconVars>>

\* line 179
CI_AddClip2 ==
    /\ pc = "ci_clip2"
    /\ addClip(squircle_path)
    /\ pc' = "ci_highlight"
    /\ UNCHANGED <<ciFrame, current_ctx, paints, iconVars>>

Stroke(path, colour) ==
    [op |-> "stroke", ctx |-> current_ctx, clip |-> clip, depth |-> gs_depth,
     path |-> path,
     lineWidth |-> stroke_width, colour |-> colour]

\* lines 181-186
CI_StrokeHighlight ==
    /\ pc = "ci_highlight"
    /\ LET path == create_squircle_path(Add(margin, bevel_offset),
                                        Sub(margin, bevel_offset), icon_size, icon_size)
       IN  /\ highlight_path' = path
           /\ paints' = Append(paints, Stroke(path, <<"white", Dec(0, 5000, 0)>>))
    /\ pc' = "ci_shadow"
    /\ UNCHANGED <<ciFrame, current_ctx, gs_depth, gs_stack, clip, squircle_path,
                   shadow_path>>

\* lines 188-193
CI_StrokeShadow ==
    /\ pc = "ci_shadow"
    /\ LET path == create_squircle_path(Sub(margin, bevel_offset),
                                        Add(margin, bevel_offset), icon_size, icon_size)
       IN  /\ shadow_path' = path
           /\ paints' = Append(paints, Stroke(path, <<"black", Dec(0, 2500, 0)>>))
    /\ pc' = "ci_restore2"
    /\ UNCHANGED <<ciFrame, current_ctx, gs_depth, gs_stack, clip, squircle_path,
                   highlight_path>>

\* line 195
CI_Restore2 ==
    /\ pc = "ci_restore2"
    /\ restoreGraphicsState
    /\ pc' = "ci_reset"
    /\ UNCHANGED <<ciFrame, current_ctx, paints, iconVars>>

\* the reset of line 197 left out
CI_Return_NoReset ==
    /\ pc = "ci_reset"
    /\ icon' = <<[size |-> <<CanvasSize, CanvasSize>>, paints |-> paints]>>
    /\ idx' = 1
    /\ stdout' = Append(stdout, "Generating PNG icons...")
    /\ pc' = "save_png"
    /\ UNCHANGED <<source_exists, ret, error, outVars, calls, source_image, gfxVars,
                   iconVars, bitmap, png_data, write_failed, pathVars>>

\* lines 197-201, and main() up to the loop of line 253
CI_Return ==
    /\ pc = "ci_reset"
    /\ current_ctx' = "None"
    /\ icon' = <<[size |-> <<CanvasSize, CanvasSize>>, paints |-> paints]>>
    /\ idx' = 1
    /\ stdout' = Append(stdout, "Generating PNG icons...")
    /\ pc' = "save_png"
    /\ UNCHANGED <<source_exists, ret, error, outVars, calls, source_image, gs_depth,
                   gs_stack, clip, paints, iconVars, bitmap, png_data, write_failed,
                   pathVars>>

---------------------------------------------------------------------------
(* save_png(icon, output_dir / f"appicon_{size}.png", size), lines 204-228 *)

spFrame == <<source_exists, ret, error, dir_exists, manifest, manifest_writes,
             source_image, icon, gs_depth, gs_stack, clip, paints, iconVars, pathVars>>

\* lines 208-215
SP_Begin ==
    /\ pc = "save_png"
    /\ calls' = Append(calls, Call("save_png", PngName(sizes[idx]), sizes[idx]))
    /\ bitmap' = <<[pixels |-> <<sizes[idx], sizes[idx]>>, drawn |-> FALSE]>>
    /\ current_ctx' = "png_ctx"
    /\ pc' = "sp_draw"
    /\ UNCHANGED <<spFrame, stdout, files, idx, png_data, write_failed>>

\* lines 217-222
SP_Draw ==
    /\ pc = "sp_draw"
    /\ bitmap' = <<[bitmap[1] EXCEPT !.drawn = TRUE]>>
    /\ pc' = "sp_reset"
    /\ UNCHANGED <<spFrame, stdout, files, calls, current_ctx, idx, png_data,
                   write_failed>>

\* line 224
SP_ResetContext ==
    /\ pc = "sp_reset"
    /\ current_ctx' = "None"
    /\ pc' = "sp_encode"
    /\ UNCHANGED <<spFrame, stdout, files, calls, idx, bitmap, png_data, write_failed>>

\* line 226: representationUsingType_properties_ returns the data, or None
SP_Encode ==
    /\ pc = "sp_encode"
    /\ \/ png_data' = <<[pixels |-> bitmap[1].pixels]>>
       \/ png_data' = <<>>
    /\ pc' = "sp_write"
    /\ UNCHANGED <<spFrame, stdout, files, calls, current_ctx, idx, bitmap,
                   write_failed>>

\* lines 227-228 and the loop of line 253: writeToFile_atomically_ returns
\* True or False, and the result is not looked at
SP_Write ==
    /\ pc = "sp_write"
    /\ IF png_data = <<>>
       THEN /\ error' = "AttributeError"
            /\ pc' = "raised"
            /\ UNCHANGED <<files, write_failed, stdout, idx>>
       ELSE /\ \/ /\ files' = {f \in files : f.name # PngName(sizes[idx])}
                              \cup {[name |-> PngName(sizes[idx]),
                                     pixels |-> png_data[1].pixels]}
                     /\ UNCHANGED write_failed
                  \/ /\ write_failed' = write_failed \cup {sizes[idx]}
                     /\ UNCHANGED files
            /\ stdout' = Append(stdout, <<"Created: ", PngName(sizes[idx]),
                                          SizeString(sizes[idx])>>)
            /\ IF idx < Len(sizes)
               THEN /\ idx' = idx + 1
                    /\ pc' = "save_png"
               ELSE /\ pc' = "manifest"
                    /\ UNCHANGED idx
            /\ UNCHANGED error
    /\ UNCHANGED <<source_exists, ret, dir_exists, manifest, manifest_writes, calls,
                   source_image, icon, gfxVars, iconVars, bitmap, png_data, pathVars>>

---------------------------------------------------------------------------
(* main(), lines 257-270                                                   *)

\* write_text writes Contents.json or raises OSError
WriteManifest ==
    /\ pc = "manifest"
    /\ \/ /\ manifest' = <<contents>>
          /\ manifest_writes' = manifest_writes + 1
          /\ stdout' = Append(stdout, "Created: Contents.json")
          /\ pc' = "finish"
          /\ UNCHANGED error
       \/ /\ error' = "OSError"
          /\ pc' = "raised"
          /\ UNCHANGED <<manifest, manifest_writes, stdout>>
    /\ UNCHANGED <<source_exists, ret, dir_exists, files, calls, source_image, icon,
                   gfxVars, iconVars, pngVars, pathVars>>

\* line 270 and the return of main()
Finish ==
    /\ pc = "finish"
    /\ stdout' = Append(stdout, "All icons generated successfully!")
    /\ ret' = "None"
    /\ pc' = "done"
    /\ UNCHANGED <<source_exists, error, outVars, calls, source_image, icon, gfxVars,
                   iconVars, pngVars, pathVars>>

---------------------------------------------------------------------------
(* Direct calls of create_squircle_path                                    *)

MaxSide == 3
SideStep == 1250

Coords == {-1750, 0, 2250}
Sides == {k * SideStep : k \in 1..MaxSide}

CallSquirclePath ==
    /\ ppc = "call"
    /\ squircle' = create_squircle_path(Milli(arg_x), Milli(arg_y),
                                        Milli(arg_width), Milli(arg_height))
    /\ ppc' = "returned"
    /\ UNCHANGED <<arg_x, arg_y, arg_width, arg_height, mainVars>>

NewArguments ==
    /\ ppc = "returned"
    /\ arg_x' \in Coords
    /\ arg_y' \in Coords
    /\ arg_width' \in Sides
    /\ arg_height' \in Sides
    /\ squircle' = NoPath
    /\ ppc' = "call"
    /\ UNCHANGED mainVars

---------------------------------------------------------------------------
(* Specifications                                                          *)

MainStart(start) ==
    /\ pc = start
    /\ stdout = <<>>
    /\ ret = "running"
    /\ error = "none"
    /\ dir_exists = FALSE
    /\ files = {}
    /\ manifest = <<>>
    /\ manifest_writes = 0
    /\ calls = <<>>
    /\ source_image = <<>>
    /\ icon = <<>>
    /\ current_ctx = "None"
    /\ gs_depth = 0
    /\ gs_stack = <<>>
    /\ clip = {}
    /\ paints = <<>>
    /\ squircle_path = NoPath
    /\ highlight_path = NoPath
    /\ shadow_path = NoPath
    /\ idx = 0
    /\ bitmap = <<>>
    /\ png_data = <<>>
    /\ write_failed = {}

PathStart(start) ==
    /\ ppc = start
    /\ squircle = NoPath

\* a run of main()
Init ==
    /\ MainStart("main")
    /\ source_exists \in BOOLEAN
    /\ PathStart("idle")
    /\ arg_x = 0 /\ arg_y = 0 /\ arg_width = 0 /\ arg_height = 0

Next ==
    \/ CheckSource
    \/ Mkdir
    \/ LoadSourceImage
    \/ CI_Begin
    \/ CI_Save1
    \/ CI_AddClip1
    \/ CI_DrawSource
    \/ CI_Restore1
    \/ CI_Save2
    \/ CI_AddClip2
    \/ CI_StrokeHighlight
    \/ CI_StrokeShadow
    \/ CI_Restore2
    \/ CI_Return
    \/ SP_Begin
    \/ SP_Draw
    \/ SP_ResetContext
    \/ SP_Encode
    \/ SP_Write
    \/ WriteManifest
    \/ Finish

Spec == Init /\ [][Next]_vars

\* create_squircle_path called directly, again and again, with any arguments
InitPath ==
    /\ MainStart("idle")
    /\ source_exists = TRUE
    /\ PathStart("call")
    /\ arg_x \in Coords
    /\ arg_y \in Coords
    /\ arg_width \in Sides
    /\ arg_height \in Sides

NextPath ==
    \/ CallSquirclePath
    \/ NewArguments

SpecPath == InitPath /\ [][NextPath]_vars

---------------------------------------------------------------------------
(* Properties of main()                                                    *)

\* the save_png calls made so far, in order
Exported == SelectSeq(calls, LAMBDA c : c.fn = "save_png")

FileNames == {f.name : f \in files}

\* C1: when the source image does not exist, main() prints the missing-source
\* error and returns 1 at once; no PNG, no Contents.json and no output
\* directory is ever created, and load_source_image, create_icon and save_png
\* are never called.
C1_MissingSourceNoOutput ==
    ~source_exists =>
        /\ pc \in {"main", "done"}
        /\ error = "none"
        /\ files = {}
        /\ manifest = <<>>
        /\ manifest_writes = 0
        /\ ~dir_exists
        /\ calls = <<>>
        /\ pc = "done" =>
              /\ ret = "1"
              /\ stdout = <<"Error: Source image not found">>

C1_Witness == ~source_exists /\ pc = "done" /\ ret = "1"

\* C2: in every run of main() that reaches its end without an error, the PNG
\* files written are exactly appicon_<size>.png for the seven sizes, each of
\* size x size pixels, and save_png was called exactly once per size, in list
\* order.
C2_ExactPngSet ==
    (pc = "done" /\ ret = "None" /\ error = "none") =>
        /\ FileNames = {PngName(sizes[i]) : i \in 1..Len(sizes)}
        /\ \A f \in files :
              \E i \in 1..Len(sizes) :
                  f = [name |-> PngName(sizes[i]), pixels |-> <<sizes[i], sizes[i]>>]
        /\ Exported = [i \in 1..Len(sizes) |->
                          Call("save_png", PngName(sizes[i]), sizes[i])]

\* C3: the manifest written by main() has one images entry per size, and the
\* i-th entry has filename appicon_<N>.png, size <N>x<N>, idiom mac and scale
\* 1x for the i-th exported size N, so that the entries and the exported file
\* names correspond one to one, in the same order.
C3_ManifestMatchesExports ==
    manifest # <<>> =>
        LET images == manifest[1].images
        IN  /\ Len(images) = Len(sizes)
            /\ Len(images) = Len(Exported)
            /\ \A i \in 1..Len(images) :
                  LET N == Exported[i].size
                  IN  /\ images[i] = [filename |-> <<"appicon_", N, ".png">>,
                                      idiom    |-> "mac",
                                      size     |-> <<N, "x", N>>,
                                      scale    |-> "1x"]
                      /\ images[i].filename = Exported[i].name

C3_Witness == manifest # <<>> /\ pc = "done" /\ Len(manifest[1].images) = 7

\* C4: Contents.json is written at most once and only after the export step
\* of all seven sizes has been executed, and whenever it exists every file
\* named in its images array has been written to the output directory.
C4_ManifestOnlyExported ==
    /\ manifest_writes <= 1
    /\ manifest # <<>> =>
          /\ Len(Exported) = Len(sizes)
          /\ pc \in {"finish", "done"}
          /\ \A i \in 1..Len(manifest[1].images) :
                manifest[1].images[i].filename \in FileNames

SizeIndex(size) == CHOOSE i \in 1..Len(sizes) : sizes[i] = size

\* the sizes whose PNG the toolkit failed to encode or to write
FailedSizes ==
    write_failed \cup
    (IF error = "AttributeError" THEN {sizes[idx]} ELSE {})

\* C5: the run is fail-fast: a decode failure or a failure to write the PNG of
\* size k halts the run with an uncaught error, no PNG of a later size and no
\* Contents.json is written, and the PNGs of the sizes before k stay.
C5_FailFast ==
    /\ error = "FileNotFoundError" => (pc = "raised" /\ files = {} /\ manifest = <<>>)
    /\ \A k \in FailedSizes :
          /\ pc = "raised"
          /\ error # "none"
          /\ manifest = <<>>
          /\ FileNames = {PngName(sizes[i]) : i \in 1..(SizeIndex(k) - 1)}

---------------------------------------------------------------------------
(* Properties of create_icon and of the graphics state                     *)

\* the mask: the squircle of (margin, margin, icon_size, icon_size) for the
\* canvas of 1024, that is of (96, 96, 832, 832)
MaskPath ==
    create_squircle_path(Milli(96000), Milli(96000), Milli(832000), Milli(832000))

\* C9: every operation of create_icon that paints on the icon canvas (the
\* source image draw, the highlight stroke, the shadow stroke) is executed
\* between the addClip of the mask path and the matching
\* restoreGraphicsState; nothing is painted with the mask clip inactive.
C9_PaintsAreClipped ==
    /\ \A i \in 1..Len(paints) :
          /\ MaskPath \in paints[i].clip
          /\ paints[i].depth = 1
          /\ paints[i].ctx = "icon_ctx"
    /\ Len(paints) <= 3
    /\ pc \in {"ci_restore1", "ci_save2", "ci_clip2", "ci_highlight"} =>
          (Len(paints) = 1 /\ paints[1].op = "drawInRect")
    /\ (icon # <<>>) =>
          (Len(paints) = 3 /\ paints[2].op = "stroke" /\ paints[3].op = "stroke"
           /\ paints[2].path = highlight_path /\ paints[3].path = shadow_path)

C9_Witness == icon # <<>> /\ Len(paints) = 3 /\ pc = "save_png"

\* C10: the graphics state is balanced: the save depth is always 0 or 1, and
\* whenever create_icon or save_png has returned the depth is 0 and the
\* current graphics context is None; so no context of an earlier step is
\* current when a save_png call starts.
C10_GraphicsStateBalanced ==
    /\ gs_depth \in {0, 1}
    /\ Len(gs_stack) = gs_depth
    /\ pc \in {"save_png", "manifest", "finish", "done"} =>
          /\ gs_depth = 0
          /\ clip = {}
          /\ current_ctx = "None"
    /\ pc \in {"sp_encode", "sp_write"} => current_ctx = "None"

C10_Witness == pc = "save_png" /\ idx = 2 /\ current_ctx = "None" /\ gs_depth = 0

---------------------------------------------------------------------------
(* Properties of create_squircle_path                                      *)

Returned == ppc = "returned"
Square == arg_width = arg_height

\* C6: for a square of side S > 0 the path is closed and its bounding box is
\* exactly [x, x+S] x [y, y+S]: every end point and control point lies in the
\* rectangle and each of its four edges is touched by an end point.
C6_ClosedWithExactBoundingBox ==
    (Returned /\ Square) =>
        LET E      == squircle.elements
            left   == Milli(arg_x)
            right  == Milli(arg_x + arg_width)
            bottom == Milli(arg_y)
            top    == Milli(arg_y + arg_height)
            ends   == {E[i].pts[1] : i \in 1..(Len(E) - 1)}
        IN  /\ E[1].op = "move"
            /\ E[Len(E)].op = "close"
            /\ E[Len(E) - 1].op = "curve"
            /\ E[Len(E) - 1].pts[1] = E[1].pts[1]
            /\ \A i \in 1..(Len(E) - 1) : \A k \in 1..Len(E[i].pts) :
                  /\ Leq(left, E[i].pts[k][1]) /\ Leq(E[i].pts[k][1], right)
                  /\ Leq(bottom, E[i].pts[k][2]) /\ Leq(E[i].pts[k][2], top)
            /\ \E q \in ends : q[1] = left
            /\ \E q \in ends : q[1] = right
            /\ \E q \in ends : q[2] = bottom
            /\ \E q \in ends : q[2] = top

C6_Witness == Returned /\ Square /\ arg_x < 0 /\ arg_y > 0 /\ Len(squircle.elements) = 18

\* the side S of the square just built, and the two candidates of line 46
SideS == Milli(arg_width)
Unclamped(S) == Mul(S, Dec(0, 2200, 0))
Clamped(S) == Div(Div(S, Dec(2, 0, 0)), Dec(1, 5286, 6483))

\* C7 as amended: for a square of side S > 0 the radius is
\* min(0.22*S, S/(2*1.52866483)), and it is always the unclamped 0.22*S: the
\* clamped value is larger for every S > 0, so there is no crossover.
C7_RadiusIsUnclamped ==
    (Returned /\ Square) =>
        /\ squircle.r = Min(Unclamped(SideS), Clamped(SideS))
        /\ squircle.r = Unclamped(SideS)
        /\ Less(Unclamped(SideS), Clamped(SideS))

C7_Witness == Returned /\ Square /\ squircle.r = Unclamped(SideS) /\ arg_width > 1000

\* C7 as claimed: the radius is the min, and both branches of the min are
\* selected by some side S > 0: beside the side just built there is a side for
\* which the clamped value S/(2*1.52866483) is selected and one for which
\* 0.22*S is.
C7_BothBranchesReachable ==
    (Returned /\ Square) =>
        /\ squircle.r = Min(Unclamped(SideS), Clamped(SideS))
        /\ \E S \in Sides : Less(Clamped(Milli(S)), Unclamped(Milli(S)))
        /\ \E S \in Sides : ~Less(Clamped(Milli(S)), Unclamped(Milli(S)))

\* the quarter turn about the centre (cx, cy) that takes the top edge to the
\* right edge
Rotate(p, cx, cy) == <<Add(cx, Sub(p[2], cy)), Sub(cy, Sub(p[1], cx))>>

\* the element that follows element i by one corner (elements 2..17 are the
\* four edges and corners)
NextCorner(i) == IF i + 4 <= 17 THEN i + 4 ELSE i - 12

RotationSymmetric ==
    LET E  == squircle.elements
        cx == Add(Milli(arg_x), Mul(Milli(arg_width), Dec(0, 5000, 0)))
        cy == Add(Milli(arg_y), Mul(Milli(arg_height), Dec(0, 5000, 0)))
    IN  /\ Len(E) = 18
        /\ Rotate(E[1].pts[1], cx, cy) = E[5].pts[1]
        /\ \A i \in 2..17 :
              /\ E[NextCorner(i)].op = E[i].op
              /\ \A k \in 1..Len(E[i].pts) :
                    Rotate(E[i].pts[k], cx, cy) = E[NextCorner(i)].pts[k]

\* C8 as amended: for width = height > 0 the contour is symmetric under the
\* quarter turn about the centre of the rectangle: the turn maps the edge and
\* the three curves of each corner onto those of the next corner.
C8_SquareIsRotationSymmetric == (Returned /\ Square) => RotationSymmetric

C8_Witness == Returned /\ Square /\ arg_x > 0 /\ RotationSymmetric

\* C8 as claimed: the contour is symmetric under the quarter turn for every
\* width, height > 0, not only for squares.
C8_AlwaysRotationSymmetric == Returned => RotationSymmetric

====
